---- MODULE Spec2Model ----
(***************************************************************************)
(* The user-account request pipeline of the Express + Prisma starter:      *)
(* router -> guards -> validators -> controller -> service -> repository   *)
(* -> store, together with the "bad practice" twin endpoints the router    *)
(* registers.  Every request is a process that is suspended at each await  *)
(* of its handler; the store is the User table.                            *)
(***************************************************************************)
EXTENDS Integers, Sequences, FiniteSets, TLC

(***************************************************************************)
(* Bounds of the model.                                                    *)
(***************************************************************************)
\* Number of requests (each served once) that may be in flight together.
NumReq == 2

Reqs == 1..NumReq

(***************************************************************************)
(* JavaScript values.  A value is a one-field record whose field name is   *)
(* its type tag, so values of different types are unequal and never        *)
(* compared field by field.  A string is a sequence of characters.         *)
(* Objects (req.body, req.headers, rows, responses) are records; a key     *)
(* that is not in the record reads as undefined.                           *)
(***************************************************************************)
Str(s) == [string |-> s]
Num(n) == [number |-> n]
Null == [null |-> TRUE]
Undefined == [undefined |-> TRUE]
NaN == [nan |-> TRUE]

\* {} of JavaScript
EmptyObject == [k \in {} |-> Undefined]

TypeOf(x) ==
    IF "string" \in DOMAIN x THEN "string"
    ELSE IF "number" \in DOMAIN x \/ "nan" \in DOMAIN x THEN "number"
    ELSE IF "undefined" \in DOMAIN x THEN "undefined"
    ELSE "object"

\* o[k] of JavaScript: undefined when the key is absent.
Get(o, k) == IF k \in DOMAIN o THEN o[k] ELSE Undefined

\* !x of JavaScript
Falsy(x) == x \in {Undefined, Null, NaN, Num(0), Str(<<>>)}

\* const { password, ...rest } = o
Omit(o, k) == [f \in DOMAIN o \ {k} |-> o[f]]

\* a === b of JavaScript (NaN is not equal to itself)
StrictEq(a, b) == a = b /\ a # NaN

(***************************************************************************)
(* Characters and the string functions the code uses.                      *)
(***************************************************************************)
DigitChars == {"0", "1", "2", "3", "4", "5", "6", "7", "8", "9"}
LetterChars ==
    {"a", "b", "c", "d", "e", "f", "g", "h", "i", "j", "k", "l", "m", "n", "o", "p", "q",
     "r", "s", "t", "u", "v", "w", "x", "y", "z", "A", "B", "C", "D", "E", "F", "G", "H",
     "I", "J", "K", "L", "M", "N", "O", "P", "Q", "R", "S", "T", "U", "V", "W", "X", "Y",
     "Z"}
SpaceChars == {" "}

DigitVal(c) ==
    CASE c = "0" -> 0 [] c = "1" -> 1 [] c = "2" -> 2 [] c = "3" -> 3
      [] c = "4" -> 4 [] c = "5" -> 5 [] c = "6" -> 6 [] c = "7" -> 7
      [] c = "8" -> 8 [] c = "9" -> 9

RECURSIVE TrimLeft(_)
TrimLeft(s) ==
    IF s # <<>> /\ Head(s) \in SpaceChars THEN TrimLeft(Tail(s)) ELSE s

RECURSIVE TrimRight(_)
TrimRight(s) ==
    IF s # <<>> /\ s[Len(s)] \in SpaceChars
    THEN TrimRight(SubSeq(s, 1, Len(s) - 1)) ELSE s

\* String.prototype.trim
Trim(s) == TrimRight(TrimLeft(s))

RECURSIVE LeadingDigits(_)
LeadingDigits(s) ==
    IF s # <<>> /\ Head(s) \in DigitChars
    THEN <<Head(s)>> \o LeadingDigits(Tail(s)) ELSE <<>>

RECURSIVE DigitsValue(_, _)
DigitsValue(ds, acc) ==
    IF ds = <<>> THEN acc ELSE DigitsValue(Tail(ds), 10 * acc + DigitVal(Head(ds)))

\* parseInt(x, 10): leading white space is skipped, an optional sign and the
\* longest run of digits are read, anything after them is ignored; NaN when
\* there is no digit to read (also for undefined).
ParseInt(x) ==
    IF TypeOf(x) # "string" THEN NaN
    ELSE LET t == TrimLeft(x.string)
             neg == t # <<>> /\ Head(t) = "-"
             u == IF t # <<>> /\ Head(t) \in {"-", "+"} THEN Tail(t) ELSE t
             ds == LeadingDigits(u)
         IN  IF ds = <<>> THEN NaN
             ELSE Num(IF neg THEN 0 - DigitsValue(ds, 0) ELSE DigitsValue(ds, 0))

\* isNaN(x) for a number x
IsNaN(x) == x = NaN

\* /^[^\s@]+@[^\s@]+\.[^\s@]+$/.test(x): no white space, exactly one "@" with
\* something before it, and after it a "." that has something on both sides.
\* A value that is not a string is tested as its string form, which for the
\* numbers, null and undefined holds no "@".
EmailRegexTest(x) ==
    /\ TypeOf(x) = "string"
    /\ LET s == x.string
       IN  /\ \A i \in 1..Len(s) : s[i] \notin SpaceChars
           /\ \E i \in 2..Len(s) :
                /\ s[i] = "@"
                /\ \A j \in 1..Len(s) : s[j] = "@" => j = i
                /\ \E j \in (i + 2)..(Len(s) - 1) : s[j] = "."

\* /\d/.test(x) and /[a-zA-Z]/.test(x) for a string x
HasNumber(s) == \E i \in 1..Len(s) : s[i] \in DigitChars
HasLetter(s) == \E i \in 1..Len(s) : s[i] \in LetterChars

\* /^\+?[\d\s-()]{10,}$/.test(x) for a string x
PhoneRegexTest(s) ==
    LET u == IF s # <<>> /\ Head(s) = "+" THEN Tail(s) ELSE s
    IN  /\ Len(u) >= 10
        /\ \A i \in 1..Len(u) : u[i] \in DigitChars \cup SpaceChars \cup {"-", "(", ")"}

(***************************************************************************)
(* bcrypt.  A hash is the string "$2b$10$" ++ salt ++ digest; the digest   *)
(* of a password is kept as the password's characters behind the salt,     *)
(* an injective stand-in for the one-way function.                         *)
(***************************************************************************)
Salts == {"s1", "s2"}
BcryptPrefix(rounds) == IF rounds = 10 THEN "$2b$10$" ELSE "$2b$xx$"

BcryptHash(password, rounds, salt) ==
    Str(<<BcryptPrefix(rounds), salt>> \o password.string)

IsBcryptHash(x) ==
    /\ TypeOf(x) = "string"
    /\ Len(x.string) >= 2
    /\ x.string[1] \in {BcryptPrefix(10), BcryptPrefix(0)}
    /\ x.string[2] \in Salts

\* bcrypt.compare(password, hash): false for a string that is no hash
BcryptCompare(password, hash) ==
    /\ IsBcryptHash(hash)
    /\ TypeOf(password) = "string"
    /\ SubSeq(hash.string, 3, Len(hash.string)) = password.string

(***************************************************************************)
(* Errors.  A thrown Error is a record of its class and its message.       *)
(***************************************************************************)
Error(msg) == [name |-> "Error", message |-> msg]
\* P2002 of the ORM: a unique constraint failed
UniqueConstraintError(field) ==
    [name |-> "PrismaClientKnownRequestError", code |-> "P2002",
     message |-> "Unique constraint failed on the fields", target |-> field]
\* P2025 of the ORM: the row an update or delete depends on was not found
RecordNotFoundError ==
    [name |-> "PrismaClientKnownRequestError", code |-> "P2025",
     message |-> "Record to update not found"]
\* a query whose arguments do not fit the schema (an unknown field, id: NaN)
QueryValidationError ==
    [name |-> "PrismaClientValidationError", message |-> "Invalid invocation"]

(***************************************************************************)
(* The User table behind prisma.user: a set of rows, with the sequence     *)
(* that numbers them.  id and email are unique; the optional columns are   *)
(* null when not given; createdAt defaults to the time of insertion.       *)
(***************************************************************************)
Columns == {"id", "email", "password", "name", "bio", "age", "phone", "createdAt"}

\* a field of `data` that is undefined is left out of the query
Given(data, k) == Get(data, k) # Undefined

RowsWhere(st, col, val) == {row \in st : row[col] = val}

\* prisma.user.findUnique({ where: { [col]: val } }): the row or null
PrismaFindUnique(st, col, val) ==
    IF val \in {Undefined, NaN} THEN [error |-> QueryValidationError, value |-> Null]
    ELSE IF RowsWhere(st, col, val) = {} THEN [error |-> Null, value |-> Null]
    ELSE [error |-> Null, value |-> CHOOSE row \in RowsWhere(st, col, val) : TRUE]

NewRow(nid, data) ==
    [k \in Columns |->
        IF k = "id" THEN (IF Given(data, "id") THEN data.id ELSE Num(nid))
        ELSE IF k = "createdAt"
             THEN (IF Given(data, "createdAt") THEN data.createdAt ELSE Num(nid))
        ELSE IF Given(data, k) THEN data[k]
        ELSE Null]

\* faulty variant: create without the unique constraints of the table
PrismaCreateNoUnique(st, nid, data) ==
    [error |-> Null, value |-> NewRow(nid, data),
     store |-> st \cup {NewRow(nid, data)}, nextId |-> nid + 1]

\* prisma.user.create({ data }): the new row, or the error; the sequence
\* advances on every attempt.
PrismaCreate(st, nid, data) ==
    IF \/ \E k \in DOMAIN data : k \notin Columns
       \/ ~Given(data, "email") \/ ~Given(data, "password")
    THEN [error |-> QueryValidationError, value |-> Null, store |-> st, nextId |-> nid]
    ELSE LET row == NewRow(nid, data)
         IN  IF RowsWhere(st, "email", row.email) # {}
             THEN [error |-> UniqueConstraintError("email"), value |-> Null,
                   store |-> st, nextId |-> nid + 1]
             ELSE IF RowsWhere(st, "id", row.id) # {}
             THEN [error |-> UniqueConstraintError("id"), value |-> Null,
                   store |-> st, nextId |-> nid + 1]
             ELSE [error |-> Null, value |-> row,
                   store |-> st \cup {row}, nextId |-> nid + 1]

UpdatedRow(old, data) ==
    [k \in Columns |-> IF Given(data, k) THEN data[k] ELSE old[k]]

\* prisma.user.update({ where: { id }, data }): the updated row, or the error
PrismaUpdate(st, id, data) ==
    IF id \in {Undefined, NaN} \/ \E k \in DOMAIN data : k \notin Columns
    THEN [error |-> QueryValidationError, value |-> Null, store |-> st]
    ELSE IF RowsWhere(st, "id", id) = {}
    THEN [error |-> RecordNotFoundError, value |-> Null, store |-> st]
    ELSE LET old == CHOOSE row \in RowsWhere(st, "id", id) : TRUE
             new == UpdatedRow(old, data)
             rest == st \ {old}
         IN  IF RowsWhere(rest, "email", new.email) # {}
             THEN [error |-> UniqueConstraintError("email"), value |-> Null, store |-> st]
             ELSE IF RowsWhere(rest, "id", new.id) # {}
             THEN [error |-> UniqueConstraintError("id"), value |-> Null, store |-> st]
             ELSE [error |-> Null, value |-> new, store |-> rest \cup {new}]

\* prisma.$queryRawUnsafe(`SELECT * FROM "User" WHERE email = '${email}'`):
\* the text of `email` becomes part of the statement, so a quote in it ends
\* the literal and what follows is read as SQL (here: OR '1'='1, every row).
InjectionOrTrue == <<"'", " ", "O", "R", " ", "'", "1", "'", "=", "'", "1">>
PrismaQueryRawByEmail(st, email) ==
    IF email = Str(InjectionOrTrue) THEN st ELSE RowsWhere(st, "email", email)

(***************************************************************************)
(* UserRepository                                                          *)
(***************************************************************************)
UserRepositoryFindById(st, id) == PrismaFindUnique(st, "id", id)

UserRepositoryFindByEmail(st, email) == PrismaFindUnique(st, "email", email)

UserRepositoryCreate(st, nid, data) == PrismaCreate(st, nid, data)

\* faulty variant: update that does not pass the data on
UserRepositoryUpdateNoData(st, id, data) == PrismaUpdate(st, id, EmptyObject)

\* faulty variant: the row is deleted, as UserRepository.delete does
UserRepositoryUpdateDeletes(st, id, data) ==
    [PrismaUpdate(st, id, data) EXCEPT !.store = st \ RowsWhere(st, "id", id)]

UserRepositoryUpdate(st, id, data) == PrismaUpdate(st, id, data)

\* BadUserRepository.badFindByEmail
BadFindByEmail(st, email) == PrismaQueryRawByEmail(st, email)

(***************************************************************************)
(* Responses and the outcome of a call.                                    *)
(***************************************************************************)
NoRes == [outcome |-> "none"]
\* res.status(status).json(body)
Response(status, body) == [outcome |-> "response", status |-> status, body |-> body]
Returned(v) == [outcome |-> "return", value |-> v]
Threw(e) == [outcome |-> "throw", error |-> e]
\* a rejected promise of an async route handler that has no catch: express
\* sends no response
UnhandledRejection(e) == [outcome |-> "unhandledRejection", error |-> e]

(***************************************************************************)
(* Middleware: each is a function of the request that either calls next    *)
(* (possibly having written to the request) or sends a response.           *)
(***************************************************************************)
Next_(rq) == [next |-> TRUE, req |-> rq]
Reject(rq, status, msg) ==
    [next |-> FALSE, req |-> rq, status |-> status, body |-> [error |-> msg]]

Admin == Str(<<"a", "d", "m", "i", "n">>)
MaxNameLength == 100
MaxBioLength == 500
MinAge == 0
MaxAge == 150
MinPasswordLength == 8
BadMinPasswordLength == 6

\* x < n and x > n of JavaScript for a number or null x (NaN compares false,
\* null compares as 0)
NumLt(x, n) == IF "number" \in DOMAIN x THEN x.number < n ELSE x = Null /\ 0 < n
NumGt(x, n) == IF "number" \in DOMAIN x THEN x.number > n ELSE x = Null /\ 0 > n

\* faulty variant: the role is not attached
requireAuthNoRole(rq) ==
    LET userId == Get(rq.headers, "x-user-id")
    IN  IF Falsy(userId)
        THEN Reject(rq, 401, "Unauthorized: User ID required")
        ELSE Next_([rq EXCEPT !.userId = ParseInt(userId)])

requireAuth(rq) ==
    LET userId == Get(rq.headers, "x-user-id")
        userRole == Get(rq.headers, "x-user-role")
    IN  IF Falsy(userId)
        THEN Reject(rq, 401, "Unauthorized: User ID required")
        ELSE Next_([rq EXCEPT !.userId = ParseInt(userId), !.userRole = userRole])

requireAdmin(rq) ==
    IF ~StrictEq(rq.userRole, Admin)
    THEN Reject(rq, 403, "Forbidden: Admin access required")
    ELSE Next_(rq)

\* faulty variant: the caller has to be the owner and an admin
requireOwnershipOrAdminBoth(rq) ==
    LET targetUserId == ParseInt(Get(rq.params, "id"))
    IN  IF IsNaN(targetUserId)
        THEN Reject(rq, 400, "Invalid user ID")
        ELSE IF ~StrictEq(rq.userId, targetUserId) \/ ~StrictEq(rq.userRole, Admin)
        THEN Reject(rq, 403, "Forbidden: Cannot access other user resources")
        ELSE Next_(rq)

\* faulty variant: the path id is not checked
requireOwnershipOrAdminAnyTarget(rq) ==
    LET targetUserId == ParseInt(Get(rq.params, "id"))
    IN  IF ~StrictEq(rq.userId, targetUserId) /\ ~StrictEq(rq.userRole, Admin)
        THEN Reject(rq, 403, "Forbidden: Cannot access other user resources")
        ELSE Next_(rq)

requireOwnershipOrAdmin(rq) ==
    LET targetUserId == ParseInt(Get(rq.params, "id"))
    IN  IF IsNaN(targetUserId)
        THEN Reject(rq, 400, "Invalid user ID")
        ELSE IF ~StrictEq(rq.userId, targetUserId) /\ ~StrictEq(rq.userRole, Admin)
        THEN Reject(rq, 403, "Forbidden: Cannot access other user resources")
        ELSE Next_(rq)

badRequireAuth(rq) == Next_(rq)

validateUserProfileUpdate(rq) ==
    LET name == Get(rq.body, "name")
        bio == Get(rq.body, "bio")
        age == Get(rq.body, "age")
        phone == Get(rq.body, "phone")
    IN  IF name # Undefined /\ (TypeOf(name) # "string" \/ Len(Trim(name.string)) = 0)
        THEN Reject(rq, 400, "Name must be a non-empty string")
        ELSE IF name # Undefined /\ Len(name.string) > MaxNameLength
        THEN Reject(rq, 400, "Name must be less than 100 characters")
        ELSE IF bio # Undefined /\ TypeOf(bio) # "string"
        THEN Reject(rq, 400, "Bio must be a string")
        ELSE IF bio # Undefined /\ Len(bio.string) > MaxBioLength
        THEN Reject(rq, 400, "Bio must be less than 500 characters")
        ELSE IF age # Undefined
                /\ (TypeOf(age) # "number" \/ NumLt(age, MinAge) \/ NumGt(age, MaxAge))
        THEN Reject(rq, 400, "Age must be a number between 0 and 150")
        ELSE IF phone # Undefined /\ phone # Null /\ TypeOf(phone) # "string"
        THEN Reject(rq, 400, "Phone must be a string")
        ELSE IF phone # Undefined /\ phone # Null /\ ~PhoneRegexTest(phone.string)
        THEN Reject(rq, 400, "Invalid phone number format")
        ELSE Next_(rq)

badValidateUserProfile(rq) == Next_(rq)

validateEmail(rq) ==
    LET email == Get(rq.body, "email")
    IN  IF Falsy(email) THEN Reject(rq, 400, "Email is required")
        ELSE IF ~EmailRegexTest(email) THEN Reject(rq, 400, "Invalid email format")
        ELSE Next_(rq)

\* faulty variant: a password without a letter is let through
validatePasswordNoLetter(rq) ==
    LET password == Get(rq.body, "password")
    IN  IF Falsy(password) THEN Reject(rq, 400, "Password is required")
        ELSE IF TypeOf(password) # "string" \/ Len(password.string) < MinPasswordLength
        THEN Reject(rq, 400, "Password must be at least 8 characters")
        ELSE IF ~HasNumber(password.string)
        THEN Reject(rq, 400, "Password must contain at least one letter and one number")
        ELSE Next_(rq)

validatePassword(rq) ==
    LET password == Get(rq.body, "password")
    IN  IF Falsy(password) THEN Reject(rq, 400, "Password is required")
        ELSE IF TypeOf(password) # "string" \/ Len(password.string) < MinPasswordLength
        THEN Reject(rq, 400, "Password must be at least 8 characters")
        ELSE IF ~HasNumber(password.string) \/ ~HasLetter(password.string)
        THEN Reject(rq, 400, "Password must contain at least one letter and one number")
        ELSE Next_(rq)

(***************************************************************************)
(* The router: the chain of middleware in front of each handler.           *)
(***************************************************************************)
PostUsers == "POST /users"
GetUser == "GET /users/:id"
PutUser == "PUT /users/:id"
PostBadUsers == "POST /bad/users"
PutBadUser == "PUT /bad/users/:id"
GetBadUserByEmail == "GET /bad/users/email/:email"
PostBadFatHandler == "POST /bad/users/fat-handler"
\* calls that do not come through the router
CallAuthenticateUser == "UserService.authenticateUser"
CallUpdateUserProfile == "UserService.updateUserProfile"
CallControllerUpdate == "UserController.updateUserProfile"

Routes == {PostUsers, GetUser, PutUser, PostBadUsers, PutBadUser,
           GetBadUserByEmail, PostBadFatHandler}
GoodRoutes == {PostUsers, GetUser, PutUser}

Chain(op) ==
    CASE op = PostUsers -> <<"validateEmail", "validatePassword">>
      [] op = GetUser -> <<"requireAuth", "requireOwnershipOrAdmin">>
      [] op = PutUser ->
            <<"requireAuth", "requireOwnershipOrAdmin", "validateUserProfileUpdate">>
      [] op = PostBadUsers -> <<"badValidateUserProfile">>
      [] op = PutBadUser -> <<"badRequireAuth">>
      [] OTHER -> <<>>

Middleware(mw, rq) ==
    CASE mw = "validateEmail" -> validateEmail(rq)
      [] mw = "validatePassword" -> validatePassword(rq)
      [] mw = "requireAuth" -> requireAuth(rq)
      [] mw = "requireOwnershipOrAdmin" -> requireOwnershipOrAdmin(rq)
      [] mw = "validateUserProfileUpdate" -> validateUserProfileUpdate(rq)
      [] mw = "badValidateUserProfile" -> badValidateUserProfile(rq)
      [] mw = "badRequireAuth" -> badRequireAuth(rq)

\* faulty variant: the chain goes on after a middleware has answered
RECURSIVE RunChainNoStop(_, _, _)
RunChainNoStop(chain, rq, ran) ==
    IF chain = <<>> THEN [next |-> TRUE, req |-> rq, ran |-> ran]
    ELSE RunChainNoStop(Tail(chain), Middleware(Head(chain), rq).req,
                        Append(ran, Head(chain)))

\* express runs the chain in order; a middleware that does not call next ends
\* it.  `ran` lists the middleware that ran.
RECURSIVE RunChain(_, _, _)
RunChain(chain, rq, ran) ==
    IF chain = <<>> THEN [next |-> TRUE, req |-> rq, ran |-> ran]
    ELSE LET m == Middleware(Head(chain), rq)
         IN  IF m.next THEN RunChain(Tail(chain), m.req, Append(ran, Head(chain)))
             ELSE [next |-> FALSE, req |-> m.req, ran |-> Append(ran, Head(chain)),
                   status |-> m.status, body |-> m.body]

(***************************************************************************)
(* UserService: the code between two awaits of a method is one operator.   *)
(***************************************************************************)
SaltRounds == 10

\* faulty variant: the password is kept as received
HashPasswordPlain(password, salt) == password

\* createUser: bcrypt.hash(password, saltRounds)
HashPassword(password, salt) == BcryptHash(password, SaltRounds, salt)

\* createUser: the object handed to userRepository.create
CreateUserData(email, hashedPassword, name, bio, age, phone) ==
    [email |-> email, password |-> hashedPassword, name |-> name,
     bio |-> bio, age |-> age, phone |-> phone]

\* faulty variant: no pre-check
CreateUserPreCheckNever(existingUser) == NoRes

\* createUser, after findByEmail: throw when the email is taken
CreateUserPreCheck(existingUser) ==
    IF ~Falsy(existingUser)
    THEN Threw(Error("User with this email already exists"))
    ELSE NoRes

\* faulty variant: the age is not checked
UpdateUserProfileChecksNoAge(user, updates) ==
    IF Falsy(user) THEN Threw(Error("User not found")) ELSE NoRes

\* updateUserProfile, after findById: the two checks before the update
UpdateUserProfileChecks(user, updates) ==
    IF Falsy(user) THEN Threw(Error("User not found"))
    ELSE IF Get(updates, "age") # Undefined
            /\ (NumLt(updates.age, MinAge) \/ NumGt(updates.age, MaxAge))
    THEN Threw(Error("Invalid age"))
    ELSE NoRes

\* faulty variant: a field that was not supplied is written as null
UpdateUserProfileDataNulls(updates) ==
    [k \in DOMAIN updates |-> IF updates[k] = Undefined THEN Null ELSE updates[k]]

\* updateUserProfile: the object handed to userRepository.update
UpdateUserProfileData(updates) == updates

\* getUserProfile, after findById
GetUserProfileResult(user) ==
    IF Falsy(user) THEN Threw(Error("User not found"))
    ELSE Returned(Omit(user, "password"))

\* faulty variant: an unknown email is reported as such
AuthenticateUserLookupNotFound(user) ==
    IF Falsy(user) THEN Threw(Error("User not found")) ELSE NoRes

\* authenticateUser, after findByEmail
AuthenticateUserLookup(user) ==
    IF Falsy(user) THEN Threw(Error("Invalid credentials")) ELSE NoRes

\* authenticateUser, after bcrypt.compare
AuthenticateUserResult(user, isPasswordValid) ==
    IF ~isPasswordValid THEN Threw(Error("Invalid credentials"))
    ELSE Returned(Omit(user, "password"))

(***************************************************************************)
(* UserController: the outcome of the service call becomes the response.   *)
(***************************************************************************)
InternalServerError == Response(500, [error |-> "Internal server error"])

\* faulty variant: the created row is sent as it is
ControllerCreateUserWithPassword(o) ==
    IF o.outcome = "return"
    THEN Response(201, [message |-> "User created successfully", user |-> o.value])
    ELSE IF o.error.message = "User with this email already exists"
    THEN Response(409, [error |-> "User with this email already exists"])
    ELSE Response(500, [error |-> "Internal server error"])

\* faulty variant: an unexpected error's message is sent to the client
ControllerCreateUserLeaking(o) ==
    IF o.outcome = "return"
    THEN Response(201, [message |-> "User created successfully",
                        user |-> Omit(o.value, "password")])
    ELSE IF o.error.message = "User with this email already exists"
    THEN Response(409, [error |-> "User with this email already exists"])
    ELSE Response(500, [error |-> o.error.message])

ControllerCreateUser(o) ==
    IF o.outcome = "return"
    THEN Response(201, [message |-> "User created successfully",
                        user |-> Omit(o.value, "password")])
    ELSE IF o.error.message = "User with this email already exists"
    THEN Response(409, [error |-> "User with this email already exists"])
    ELSE InternalServerError

ControllerGetUserProfile(o) ==
    IF o.outcome = "return" THEN Response(200, o.value)
    ELSE IF o.error.message = "User not found"
    THEN Response(404, [error |-> "User not found"])
    ELSE InternalServerError

ControllerUpdateUserProfile(o) ==
    IF o.outcome = "return"
    THEN Response(200, [message |-> "Profile updated successfully",
                        user |-> Omit(o.value, "password")])
    ELSE IF o.error.message = "User not found"
    THEN Response(404, [error |-> "User not found"])
    ELSE IF o.error.message = "Invalid age"
    THEN Response(400, [error |-> "Invalid age"])
    ELSE InternalServerError

\* BadUserController.badUpdateUser: the row as it is, or the error's details
BadUpdateUserResponse(o) ==
    IF o.outcome = "return" THEN Response(200, o.value)
    ELSE Response(500, [error |-> "Database error", details |-> o.error.message,
                        stack |-> o.error.name])

\* BadUserController.badCreateUser and the fat route handler: no try/catch
BadCreateUserResponse(op, o) ==
    IF o.outcome = "throw" THEN UnhandledRejection(o.error)
    ELSE IF op = PostBadUsers
    THEN Response(201, [success |-> TRUE, message |-> "User created", data |-> o.value])
    ELSE Response(201, o.value)

\* GET /bad/users/email/:email
BadQueryResponse(rows) == Response(200, [rows |-> rows])

\* who turns the outcome of the service call of `op` into the result the
\* caller sees: the controller method of the route, or nobody
Deliver(op, o) ==
    IF o.outcome \notin {"return", "throw"} THEN o
    ELSE CASE op = PostUsers -> ControllerCreateUser(o)
           [] op = GetUser -> ControllerGetUserProfile(o)
           [] op \in {PutUser, CallControllerUpdate} -> ControllerUpdateUserProfile(o)
           [] op = PutBadUser -> BadUpdateUserResponse(o)
           [] op \in {PostBadUsers, PostBadFatHandler} -> BadCreateUserResponse(op, o)
           [] OTHER -> o

\* the handler of `op` up to its first await: where it suspends and with what
\* arguments, or the response it sends at once
HandlerEntry(rq) ==
    LET body == rq.body
        id == ParseInt(Get(rq.params, "id"))
    IN  CASE rq.op = PostUsers ->
               [pc |-> "findByEmail", out |-> NoRes,
                args |-> <<Get(body, "email"), Get(body, "password"), Get(body, "name"),
                           Get(body, "bio"), Get(body, "age"), Get(body, "phone")>>]
          [] rq.op = GetUser ->
               [pc |-> "findById", out |-> NoRes, args |-> <<id>>]
          [] rq.op \in {PutUser, CallControllerUpdate} ->
               [pc |-> "findById", out |-> NoRes,
                args |-> <<id, [name |-> Get(body, "name"), bio |-> Get(body, "bio"),
                                age |-> Get(body, "age"), phone |-> Get(body, "phone")]>>]
          [] rq.op = PostBadUsers ->
               IF Falsy(Get(body, "email")) \/ Falsy(Get(body, "password"))
               THEN [pc |-> "done", args |-> <<>>,
                     out |-> Response(400, [error |-> "Email and password required"])]
               ELSE IF TypeOf(body.password) = "string"
                       /\ Len(body.password.string) < BadMinPasswordLength
               THEN [pc |-> "done", args |-> <<>>,
                     out |-> Response(400, [error |-> "Password too short"])]
               ELSE [pc |-> "badFindUnique", out |-> NoRes,
                     args |-> <<body.email, body.password, Get(body, "name")>>]
          [] rq.op = PostBadFatHandler ->
               IF Falsy(Get(body, "email")) \/ Falsy(Get(body, "password"))
               THEN [pc |-> "done", args |-> <<>>,
                     out |-> Response(400, [error |-> "Missing fields"])]
               ELSE [pc |-> "badFindUnique", out |-> NoRes,
                     args |-> <<body.email, body.password>>]
          [] rq.op = PutBadUser ->
               [pc |-> "badUpdate", out |-> NoRes, args |-> <<id, body>>]
          [] rq.op = GetBadUserByEmail ->
               [pc |-> "badQuery", out |-> NoRes, args |-> <<Get(rq.params, "email")>>]
          [] rq.op = CallAuthenticateUser ->
               [pc |-> "findByEmail", out |-> NoRes, args |-> rq.args]
          [] rq.op = CallUpdateUserProfile ->
               [pc |-> "findById", out |-> NoRes, args |-> rq.args]

\* BadUserController.badCreateUser / fat handler: the object handed to create
BadCreateData(op, args) ==
    IF op = PostBadUsers
    THEN [email |-> args[1], password |-> args[2],
          name |-> IF Falsy(args[3]) THEN Str(<<"U", "n", "k", "n", "o", "w", "n">>)
                   ELSE args[3]]
    ELSE [email |-> args[1], password |-> args[2]]

(***************************************************************************)
(* The requests the clients send.                                          *)
(***************************************************************************)
EmailA == Str(<<"a", "@", "b", ".", "c">>)
EmailB == Str(<<"x", "@", "y", ".", "c">>)
NotAnEmail == Str(<<"a", "b">>)
PwGood == Str(<<"a", "b", "c", "1", "2", "3", "4", "5">>)
PwShort == Str(<<"s", "h", "o", "r", "t", "1">>)
NameAl == Str(<<"A", "l">>)

HeadersUser1 == "x-user-id" :> Str(<<"1">>)
HeadersAdmin2 == ("x-user-id" :> Str(<<"2">>)) @@ ("x-user-role" :> Admin)
Id(s) == [id |-> Str(s)]

HttpRequest(op, headers, params, body) ==
    [op |-> op, headers |-> headers, params |-> params, body |-> body,
     args |-> <<>>, userId |-> Undefined, userRole |-> Undefined]

ServiceCall(op, args) ==
    [op |-> op, headers |-> EmptyObject, params |-> EmptyObject, body |-> EmptyObject,
     args |-> args, userId |-> Undefined, userRole |-> Undefined]

PostUsersInputs ==
    {HttpRequest(PostUsers, EmptyObject, EmptyObject, b) : b \in
        {[email |-> EmailA, password |-> PwGood],
         [email |-> EmailB, password |-> PwGood, name |-> NameAl],
         [email |-> NotAnEmail, password |-> PwGood],
         [email |-> EmailA, password |-> PwShort],
         [email |-> EmailB, password |-> PwGood, name |-> Str(<<>>), age |-> Num(200)]}}

GetUserInputs ==
    {HttpRequest(GetUser, HeadersUser1, Id(<<"1">>), EmptyObject),
     HttpRequest(GetUser, HeadersAdmin2, Id(<<"1">>), EmptyObject),
     HttpRequest(GetUser, HeadersUser1, Id(<<"2">>), EmptyObject),
     HttpRequest(GetUser, EmptyObject, Id(<<"1">>), EmptyObject),
     HttpRequest(GetUser, HeadersUser1, Id(<<"a", "b", "c">>), EmptyObject)}

PutUserInputs ==
    {HttpRequest(PutUser, HeadersUser1, Id(<<"1">>), [age |-> Num(30)]),
     HttpRequest(PutUser, HeadersUser1, Id(<<"1">>), [age |-> Num(200)]),
     HttpRequest(PutUser, HeadersUser1, Id(<<"1">>),
                 [name |-> NameAl, email |-> EmailB, password |-> PwShort]),
     HttpRequest(PutUser, HeadersAdmin2, Id(<<"2">>), [age |-> Num(30)]),
     HttpRequest(PutUser, HeadersUser1, Id(<<"2">>), [age |-> Num(30)])}

BadInputs ==
    {HttpRequest(PostBadUsers, EmptyObject, EmptyObject, [email |-> EmailA, password |-> PwShort]),
     HttpRequest(PostBadUsers, EmptyObject, EmptyObject, [email |-> EmailA]),
     HttpRequest(PostBadUsers, EmptyObject, EmptyObject,
                 [email |-> EmailB, password |-> Str(<<"a", "b", "c">>)]),
     HttpRequest(PostBadFatHandler, EmptyObject, EmptyObject,
                 [email |-> EmailB, password |-> PwShort]),
     HttpRequest(PostBadFatHandler, EmptyObject, EmptyObject, [password |-> PwShort]),
     HttpRequest(PutBadUser, EmptyObject, Id(<<"1">>), [password |-> PwShort]),
     HttpRequest(PutBadUser, EmptyObject, Id(<<"1">>), [email |-> EmailB]),
     HttpRequest(PutBadUser, EmptyObject, Id(<<"1">>), [id |-> Num(5)]),
     HttpRequest(PutBadUser, EmptyObject, Id(<<"a", "b", "c">>), [name |-> NameAl]),
     HttpRequest(GetBadUserByEmail, EmptyObject, [email |-> EmailA], EmptyObject),
     HttpRequest(GetBadUserByEmail, EmptyObject, [email |-> Str(InjectionOrTrue)],
                 EmptyObject)}

DirectCalls ==
    {ServiceCall(CallAuthenticateUser, <<EmailA, PwGood>>),
     ServiceCall(CallAuthenticateUser, <<EmailA, PwShort>>),
     ServiceCall(CallAuthenticateUser, <<EmailB, PwGood>>),
     ServiceCall(CallUpdateUserProfile, <<Num(1), [age |-> Num(200)]>>),
     ServiceCall(CallUpdateUserProfile, <<Num(1), [age |-> Num(0 - 1)]>>),
     ServiceCall(CallUpdateUserProfile, <<Num(2), [age |-> Num(200)]>>),
     ServiceCall(CallUpdateUserProfile,
                 <<Num(1), [age |-> Num(30), email |-> EmailB, password |-> PwShort]>>),
     HttpRequest(CallControllerUpdate, EmptyObject, Id(<<"1">>), [age |-> Num(200)]),
     HttpRequest(CallControllerUpdate, EmptyObject, Id(<<"2">>), [age |-> Num(200)])}

Inputs == PostUsersInputs \cup GetUserInputs \cup PutUserInputs \cup BadInputs
            \cup DirectCalls

\* an account that an earlier run of the server registered through POST /users
SeedRow ==
    NewRow(1, CreateUserData(EmailA, HashPassword(PwGood, "s1"),
                             Undefined, Undefined, Undefined, Undefined))

(***************************************************************************)
(* State.                                                                  *)
(***************************************************************************)
VARIABLES
    store,   \* the rows of the User table
    nextId,  \* the next value of the table's id sequence
    pc,      \* per request: the await it is suspended at, "idle" or "done"
    req,     \* per request: the express request (after the middleware ran)
    loc,     \* per request: the local variables of the handler and the service
    res,     \* per request: the response sent (or the result of a direct call)
    after    \* per request: the requests that were done when it arrived

vars == <<store, nextId, pc, req, loc, res, after>>

NoReq == [op |-> "none"]
NoLoc == [args |-> <<>>, existingUser |-> Undefined, hashedPassword |-> Undefined,
          user |-> Undefined, error |-> Undefined, ran |-> <<>>]

Init ==
    /\ store \in {{}, {SeedRow}}
    /\ nextId = Cardinality(store) + 1
    /\ pc = [r \in Reqs |-> "idle"]
    /\ req = [r \in Reqs |-> NoReq]
    /\ loc = [r \in Reqs |-> NoLoc]
    /\ res = [r \in Reqs |-> NoRes]
    /\ after = [r \in Reqs |-> {}]

\* request r goes on to `newpc` with locals `newloc`; when it is done, `o` is
\* the outcome of its call, and a thrown error is the `error` of the catch
Goto(r, newpc, newloc, o) ==
    /\ pc' = [pc EXCEPT ![r] = newpc]
    /\ loc' = [loc EXCEPT ![r] = IF o.outcome = "throw"
                                  THEN [newloc EXCEPT !.error = o.error]
                                  ELSE newloc]
    /\ res' = [res EXCEPT ![r] = IF newpc = "done" THEN Deliver(req[r].op, o) ELSE res[r]]

(***************************************************************************)
(* Actions: one per await point of the handlers.                           *)
(***************************************************************************)
\* A request arrives: express runs the route's middleware and the handler up
\* to its first await, all in one turn of the event loop.
ReceiveFrom(r, inputs) ==
    /\ pc[r] = "idle"
    /\ \E rq \in inputs :
         LET c == RunChain(Chain(rq.op), rq, <<>>)
             h == HandlerEntry(c.req)
         IN  /\ req' = [req EXCEPT ![r] = c.req]
             /\ IF c.next
                THEN /\ pc' = [pc EXCEPT ![r] = h.pc]
                     /\ loc' = [loc EXCEPT ![r] = [NoLoc EXCEPT !.args = h.args, !.ran = c.ran]]
                     /\ res' = [res EXCEPT ![r] = h.out]
                ELSE /\ pc' = [pc EXCEPT ![r] = "done"]
                     /\ loc' = [loc EXCEPT ![r] = [NoLoc EXCEPT !.ran = c.ran]]
                     /\ res' = [res EXCEPT ![r] = Response(c.status, c.body)]
    /\ after' = [after EXCEPT ![r] = {q \in Reqs : pc[q] = "done"}]
    /\ UNCHANGED <<store, nextId>>

Receive(r) == ReceiveFrom(r, Inputs)

\* await this.userRepository.findByEmail(email), in createUser and authenticateUser
FindByEmail(r) ==
    /\ pc[r] = "findByEmail"
    /\ LET f == UserRepositoryFindByEmail(store, loc[r].args[1])
           check == IF req[r].op = PostUsers THEN CreateUserPreCheck(f.value)
                    ELSE AuthenticateUserLookup(f.value)
       IN  IF f.error # Null THEN Goto(r, "done", loc[r], Threw(f.error))
           ELSE IF check # NoRes THEN Goto(r, "done", loc[r], check)
           ELSE IF req[r].op = PostUsers
           THEN Goto(r, "hash", [loc[r] EXCEPT !.existingUser = f.value], NoRes)
           ELSE Goto(r, "compare", [loc[r] EXCEPT !.user = f.value], NoRes)
    /\ UNCHANGED <<store, nextId, req, after>>

\* await bcrypt.hash(password, saltRounds)
Hash(r) ==
    /\ pc[r] = "hash"
    /\ \E salt \in Salts :
         Goto(r, "create",
              [loc[r] EXCEPT !.hashedPassword = HashPassword(loc[r].args[2], salt)], NoRes)
    /\ UNCHANGED <<store, nextId, req, after>>

\* return this.userRepository.create({...}), awaited by the controller
Create(r) ==
    /\ pc[r] = "create"
    /\ LET a == loc[r].args
           c == UserRepositoryCreate(store, nextId,
                    CreateUserData(a[1], loc[r].hashedPassword, a[3], a[4], a[5], a[6]))
       IN  /\ store' = c.store
           /\ nextId' = c.nextId
           /\ IF c.error # Null THEN Goto(r, "done", loc[r], Threw(c.error))
              ELSE Goto(r, "done", [loc[r] EXCEPT !.user = c.value], Returned(c.value))
    /\ UNCHANGED <<req, after>>

\* await this.userRepository.findById(userId), in getUserProfile and updateUserProfile
FindById(r) ==
    /\ pc[r] = "findById"
    /\ LET f == UserRepositoryFindById(store, loc[r].args[1])
       IN  IF f.error # Null THEN Goto(r, "done", loc[r], Threw(f.error))
           ELSE IF req[r].op = GetUser
           THEN Goto(r, "done", [loc[r] EXCEPT !.user = f.value], GetUserProfileResult(f.value))
           ELSE LET check == UpdateUserProfileChecks(f.value, loc[r].args[2])
                IN  IF check # NoRes THEN Goto(r, "done", loc[r], check)
                    ELSE Goto(r, "update", [loc[r] EXCEPT !.user = f.value], NoRes)
    /\ UNCHANGED <<store, nextId, req, after>>

\* return this.userRepository.update(userId, updates), awaited by the caller
Update(r) ==
    /\ pc[r] = "update"
    /\ LET u == UserRepositoryUpdate(store, loc[r].args[1],
                                     UpdateUserProfileData(loc[r].args[2]))
       IN  /\ store' = u.store
           /\ IF u.error # Null THEN Goto(r, "done", loc[r], Threw(u.error))
              ELSE Goto(r, "done", loc[r], Returned(u.value))
    /\ UNCHANGED <<nextId, req, after>>

\* await bcrypt.compare(password, user.password)
Compare(r) ==
    /\ pc[r] = "compare"
    /\ Goto(r, "done", loc[r],
            AuthenticateUserResult(loc[r].user,
                                   BcryptCompare(loc[r].args[2], loc[r].user.password)))
    /\ UNCHANGED <<store, nextId, req, after>>

\* await prisma.user.findUnique({ where: { email } }), in badCreateUser and in
\* the fat route handler
BadFindUnique(r) ==
    /\ pc[r] = "badFindUnique"
    /\ LET f == PrismaFindUnique(store, "email", loc[r].args[1])
       IN  IF f.error # Null THEN Goto(r, "done", loc[r], UnhandledRejection(f.error))
           ELSE IF ~Falsy(f.value)
           THEN Goto(r, "done", [loc[r] EXCEPT !.existingUser = f.value],
                     Response(409, [error |-> "User exists"]))
           ELSE Goto(r, "badCreate", [loc[r] EXCEPT !.existingUser = f.value], NoRes)
    /\ UNCHANGED <<store, nextId, req, after>>

\* await prisma.user.create({ data: {...} }) with the password as received
BadCreate(r) ==
    /\ pc[r] = "badCreate"
    /\ LET c == PrismaCreate(store, nextId, BadCreateData(req[r].op, loc[r].args))
       IN  /\ store' = c.store
           /\ nextId' = c.nextId
           /\ IF c.error # Null THEN Goto(r, "done", loc[r], Threw(c.error))
              ELSE Goto(r, "done", [loc[r] EXCEPT !.user = c.value], Returned(c.value))
    /\ UNCHANGED <<req, after>>

\* await prisma.user.update({ where: { id: userId }, data: updates })
BadUpdate(r) ==
    /\ pc[r] = "badUpdate"
    /\ LET u == PrismaUpdate(store, loc[r].args[1], loc[r].args[2])
       IN  /\ store' = u.store
           /\ IF u.error # Null THEN Goto(r, "done", loc[r], Threw(u.error))
              ELSE Goto(r, "done", loc[r], Returned(u.value))
    /\ UNCHANGED <<nextId, req, after>>

\* await badRepo.badFindByEmail(req.params.email)
BadQuery(r) ==
    /\ pc[r] = "badQuery"
    /\ Goto(r, "done", loc[r], BadQueryResponse(BadFindByEmail(store, loc[r].args[1])))
    /\ UNCHANGED <<store, nextId, req, after>>

Next ==
    \E r \in Reqs :
        \/ Receive(r)
        \/ FindByEmail(r)
        \/ Hash(r)
        \/ Create(r)
        \/ FindById(r)
        \/ Update(r)
        \/ Compare(r)
        \/ BadFindUnique(r)
        \/ BadCreate(r)
        \/ BadUpdate(r)
        \/ BadQuery(r)

Spec == Init /\ [][Next]_vars

(***************************************************************************)
(* Properties.                                                             *)
(***************************************************************************)
Done(r) == pc[r] = "done"

\* r is a POST /users that passed both validators
ValidRegistration(r) ==
    /\ pc[r] # "idle"
    /\ req[r].op = PostUsers
    /\ validateEmail(req[r]).next
    /\ validatePassword(req[r]).next

\* r2 arrived when r1 was done, and no other request ran since r1 arrived
InSequence(r1, r2) ==
    /\ r1 # r2
    /\ Done(r1) /\ Done(r2)
    /\ r1 \in after[r2]
    /\ \A r3 \in Reqs \ {r1, r2} : pc[r3] = "idle" \/ r3 \in after[r1]

SameEmailRegistrations(r1, r2) ==
    /\ ValidRegistration(r1) /\ ValidRegistration(r2)
    /\ req[r1].body.email = req[r2].body.email

DuplicateResponse == Response(409, [error |-> "User with this email already exists"])

\* C1: of two POST /users with the same valid email and password served one
\* after the other, the first, which finds the email free, is answered 201 and
\* the second is answered 409 with the duplicate-account error; the store then
\* holds exactly one account with that email.
C1_RegisterTwice ==
    \A r1, r2 \in Reqs :
        (InSequence(r1, r2) /\ SameEmailRegistrations(r1, r2)) =>
            /\ loc[r1].existingUser = Null => res[r1].status = 201
            /\ res[r1].status = 201 =>
                 /\ res[r2] = DuplicateResponse
                 /\ Cardinality(RowsWhere(store, "email", req[r1].body.email)) = 1

C1_Witness ==
    \E r1, r2 \in Reqs :
        /\ InSequence(r1, r2) /\ SameEmailRegistrations(r1, r2)
        /\ res[r1].status = 201
        /\ res[r2].status = 409

\* C2: no two accounts of the store have the same email, whatever the
\* interleaving of the requests.
C2_EmailUnique ==
    \A a, b \in store : a.email = b.email => a = b

\* two registrations of one email that both passed the pre-check
RacedRegistrations(r1, r2) ==
    /\ r1 # r2
    /\ SameEmailRegistrations(r1, r2)
    /\ loc[r1].existingUser = Null /\ loc[r2].existingUser = Null
    /\ Done(r1) /\ Done(r2)

C2_Witness ==
    \E r1, r2 \in Reqs :
        /\ RacedRegistrations(r1, r2)
        /\ Cardinality(RowsWhere(store, "email", req[r1].body.email)) = 1

\* C3: when two POST /users with the same email both pass the pre-check, one
\* is answered 201 and the other 409 with the duplicate-account error.
C3_RaceAnswered409 ==
    \A r1, r2 \in Reqs :
        (RacedRegistrations(r1, r2) /\ res[r1].status = 201) =>
            res[r2] = DuplicateResponse

\* C4: the password UserService.createUser hands to the repository, and the
\* password of the row created, is the bcrypt hash of the password supplied
\* and differs from it; the row stays so in the store while no other request
\* writes passwords.
C4_PasswordHashed ==
    \A r \in Reqs :
        req[r].op = PostUsers =>
            /\ pc[r] = "create" =>
                 /\ BcryptCompare(loc[r].args[2], loc[r].hashedPassword)
                 /\ loc[r].hashedPassword # loc[r].args[2]
            /\ (Done(r) /\ res[r].status = 201) =>
                 /\ BcryptCompare(loc[r].args[2], loc[r].user.password)
                 /\ loc[r].user.password # loc[r].args[2]
                 /\ (\A q \in Reqs \ {r} :
                        req[q].op \notin {PutBadUser, CallUpdateUserProfile}) =>
                      \E row \in store : /\ row.id = loc[r].user.id
                                         /\ row.password = loc[r].user.password

C4_Witness ==
    \E r \in Reqs :
        /\ req[r].op = PostUsers /\ Done(r) /\ res[r].status = 201
        /\ \E row \in store : row.id = loc[r].user.id /\ IsBcryptHash(row.password)

\* every request so far came through the router
AllRouted == \A r \in Reqs : req[r].op \in Routes \cup {"none"}

\* C5 as claimed: after requests to the router's endpoints, every stored
\* password is a hash and not the secret a client supplied.
C5_EveryPasswordHashed ==
    AllRouted =>
        \A row \in store :
            /\ IsBcryptHash(row.password)
            /\ \A r \in Reqs : pc[r] # "idle" => row.password # Get(req[r].body, "password")

\* request r, one to a /bad endpoint, wrote the password of the row (a row is
\* told by the password written, since PUT /bad/users/:id can change its id)
BadWrote(r, row) ==
    \/ /\ req[r].op \in {PostBadUsers, PostBadFatHandler}
       /\ loc[r].user # Undefined
       /\ loc[r].user.password = row.password
    \/ /\ req[r].op = PutBadUser
       /\ "password" \in DOMAIN req[r].body
       /\ Done(r) /\ res[r].status = 200
       /\ res[r].body.password = row.password

\* C5 amended: after requests to the router's endpoints, every stored password
\* is a bcrypt hash, except that of an account created through POST /bad/users
\* or POST /bad/users/fat-handler or overwritten through PUT /bad/users/:id.
C5_PasswordHashedUnlessBad ==
    AllRouted =>
        \A row \in store :
            \/ IsBcryptHash(row.password)
            \/ \E r \in Reqs : BadWrote(r, row)

C5_Witness ==
    /\ AllRouted
    /\ \E r \in Reqs : req[r].op = PostUsers /\ Done(r) /\ res[r].status = 201
    /\ \E row \in store : ~IsBcryptHash(row.password)

NoPasswordIn(body) ==
    /\ "password" \notin DOMAIN body
    /\ "user" \in DOMAIN body => "password" \notin DOMAIN body.user

\* C6: no response of UserController (POST /users, GET /users/:id,
\* PUT /users/:id) has a password field, in the body or in the account it
\* carries.
C6_NoPasswordInResponse ==
    \A r \in Reqs :
        (req[r].op \in GoodRoutes \cup {CallControllerUpdate} /\ res[r].outcome = "response")
            => NoPasswordIn(res[r].body)

C6_Witness ==
    \E r1, r2 \in Reqs :
        /\ req[r1].op = PostUsers /\ Done(r1) /\ res[r1].status = 201
        /\ "email" \in DOMAIN res[r1].body.user
        /\ req[r2].op \in {GetUser, PutUser} /\ Done(r2) /\ res[r2].status = 200

AuthCall(r) == req[r].op = CallAuthenticateUser /\ Done(r)
InvalidCredentials == Threw(Error("Invalid credentials"))

\* C7: authenticateUser throws the one Error('Invalid credentials') both when
\* findByEmail finds no account and when the password does not match the
\* stored hash, so any two failed calls have the same result; when the
\* password matches the stored hash it returns the account, without password.
C7_Authenticate ==
    /\ \A r \in Reqs :
         AuthCall(r) =>
            IF loc[r].user = Undefined THEN res[r] = InvalidCredentials
            ELSE IF ~BcryptCompare(loc[r].args[2], loc[r].user.password)
            THEN res[r] = InvalidCredentials
            ELSE /\ res[r].outcome = "return"
                 /\ "password" \notin DOMAIN res[r].value
                 /\ res[r].value.email = loc[r].args[1]
                 /\ res[r].value.id = loc[r].user.id
    /\ \A r1, r2 \in Reqs :
         (AuthCall(r1) /\ AuthCall(r2) /\ res[r1].outcome = "throw" /\ res[r2].outcome = "throw")
            => res[r1] = res[r2]

C7_Witness ==
    \E r1, r2 \in Reqs :
        /\ AuthCall(r1) /\ AuthCall(r2)
        /\ loc[r1].user = Undefined /\ res[r1].outcome = "throw"
        /\ loc[r2].user # Undefined /\ res[r2].outcome = "throw"

UpdateOps == {PutUser, CallUpdateUserProfile, CallControllerUpdate}

AgeOutOfRange(updates) ==
    /\ "age" \in DOMAIN updates
    /\ "number" \in DOMAIN updates.age
    /\ (updates.age.number < 0 \/ updates.age.number > 150)

\* what the caller of `op` sees of a business error of updateUserProfile
UpdateFailure(op, msg, status) ==
    IF op = CallUpdateUserProfile THEN Threw(Error(msg))
    ELSE Response(status, [error |-> msg])

C8_Router ==
    \A r \in Reqs :
        (req[r].op = PutUser /\ AgeOutOfRange(req[r].body) /\ Len(loc[r].ran) = 3)
            => Done(r) /\ res[r].status = 400

C8_FindByIdStep(r) ==
    (pc[r] = "findById" /\ req[r].op \in UpdateOps /\ pc'[r] # "findById"
       /\ "number" \in DOMAIN loc[r].args[1]) =>
        LET exists == RowsWhere(store, "id", loc[r].args[1]) # {}
            op == req[r].op
        IN  /\ ~exists =>
                 /\ pc'[r] = "done" /\ store' = store
                 /\ res'[r] = UpdateFailure(op, "User not found", 404)
            /\ (exists /\ AgeOutOfRange(loc[r].args[2])) =>
                 /\ pc'[r] = "done" /\ store' = store
                 /\ res'[r] = UpdateFailure(op, "Invalid age", 400)

\* C8: updateUserProfile, for a numeric id, when its findById returns: if no
\* account has the id the call ends with 'User not found' (404 from the
\* controller), if one has and the age is outside 0..150 it ends with
\* 'Invalid age' (400 from the controller), and in both cases the store is
\* unchanged; a PUT /users/:id with such an age that reaches the validator is
\* answered 400.
C8_UpdateRejected ==
    [](C8_Router) /\ [][\A r \in Reqs : C8_FindByIdStep(r)]_vars

C8_Witness ==
    \E r1, r2 \in Reqs :
        /\ req[r1].op = CallUpdateUserProfile /\ res[r1] = Threw(Error("Invalid age"))
        /\ req[r2].op = CallControllerUpdate
        /\ res[r2] = Response(404, [error |-> "User not found"])

SuccessfulAgeUpdate(r) ==
    /\ req[r].op \in UpdateOps /\ Done(r)
    /\ \/ res[r].outcome = "return"
       \/ res[r].outcome = "response" /\ res[r].status = 200
    /\ "number" \in DOMAIN Get(loc[r].args[2], "age")

\* C9: a successful update of the age of an account, followed by a
\* GET /users/:id of the same account with nothing in between, returns the
\* age written.
C9_ReadAfterUpdate ==
    \A r1, r2 \in Reqs :
        (/\ InSequence(r1, r2)
         /\ SuccessfulAgeUpdate(r1)
         /\ req[r2].op = GetUser /\ res[r2].status = 200
         /\ loc[r2].args[1] = loc[r1].args[1])
            => res[r2].body.age = loc[r1].args[2].age

C9_Witness ==
    \E r1, r2 \in Reqs :
        /\ InSequence(r1, r2)
        /\ SuccessfulAgeUpdate(r1)
        /\ req[r2].op = GetUser /\ res[r2].status = 200
        /\ loc[r2].args[1] = loc[r1].args[1]
        /\ res[r2].body.age = Num(30)

\* C10: the update of UserService.updateUserProfile leaves the email, the
\* password and the id of the account as they were, whatever fields its
\* updates argument has.
C10_OnlyProfileFieldsPersisted ==
    [][\A r \in Reqs :
          (pc[r] = "update" /\ pc'[r] = "done") =>
              \A old \in RowsWhere(store, "id", loc[r].args[1]) :
                  \E new \in store' :
                      /\ new.id = old.id
                      /\ new.email = old.email
                      /\ new.password = old.password]_vars

(***************************************************************************)
(* The guards on their own: one request to a guarded route, with any of    *)
(* the identity headers, role headers and path ids below.                  *)
(***************************************************************************)
Header(k, v) == IF v = Undefined THEN EmptyObject ELSE k :> v
GuardUserIds ==
    {Undefined, Str(<<>>), Str(<<"1">>), Str(<<"5">>), Str(<<"7">>), Str(<<"a", "b", "c">>)}
GuardRoles == {Undefined, Admin, Str(<<"u", "s", "e", "r">>)}
GuardPathIds == {<<"1">>, <<"5">>, <<"7">>, <<"a", "b", "c">>, <<"5", "a">>}
GuardInputs ==
    {HttpRequest(op, Header("x-user-id", u) @@ Header("x-user-role", ro), Id(i),
                 EmptyObject) :
        op \in {GetUser, PutUser}, u \in GuardUserIds, ro \in GuardRoles,
        i \in GuardPathIds}

GuardReceive == ReceiveFrom(1, GuardInputs)

SpecGuards == Init /\ [][GuardReceive]_vars

\* the i-th middleware of r's chain ran and called next: the next middleware
\* ran or, after the last one, the handler was entered
Passed(r, i) ==
    \/ Len(loc[r].ran) > i
    \/ Len(loc[r].ran) = i /\ Len(Chain(req[r].op)) = i /\ loc[r].args # <<>>

\* the i-th middleware of r's chain answered with `status` and did not call next
RejectedWith(r, i, status) ==
    /\ Len(loc[r].ran) = i
    /\ loc[r].args = <<>>
    /\ pc[r] = "done"
    /\ res[r].outcome = "response"
    /\ res[r].status = status
    /\ DOMAIN res[r].body = {"error"}

Guarded(r) == req[r].op \in {GetUser, PutUser}

\* C11: whenever requireOwnershipOrAdmin runs, for every resolved identity, role
\* and path id: a path id that parseInt turns into NaN is answered 400; any
\* other passes when the identity is the parsed path id or the role is admin,
\* and is answered 403 otherwise.
C11_OwnershipOrAdmin ==
    \A r \in Reqs :
        Guarded(r) /\ Len(loc[r].ran) >= 2 =>
            LET target == ParseInt(req[r].params.id)
            IN  IF target = NaN THEN RejectedWith(r, 2, 400)
                ELSE IF req[r].userId = target \/ req[r].userRole = Admin
                THEN Passed(r, 2)
                ELSE RejectedWith(r, 2, 403)

\* an admin whose identity is 5 reads account 7
C11_Witness ==
    \E r \in Reqs :
        /\ req[r].op = GetUser
        /\ req[r].userId = Num(5)
        /\ req[r].userRole = Admin
        /\ req[r].params.id = Str(<<"7">>)
        /\ Passed(r, 2)

\* r is a GET or PUT /users/:id whose :id parseInt turns into NaN
NonNumericId(r) ==
    /\ pc[r] # "idle"
    /\ Guarded(r)
    /\ IsNaN(ParseInt(req[r].params.id))

Answered(r, status) ==
    pc[r] = "done" /\ res[r].outcome = "response" /\ res[r].status = status

\* C12 as stated: every GET or PUT /users/:id whose :id does not parse as a
\* numeric id is answered 400.
C12_NonNumericId400 == \A r \in Reqs : NonNumericId(r) => Answered(r, 400)

\* C12: every GET or PUT /users/:id whose :id does not parse as a numeric id is
\* answered 400 when it carries a non-empty x-user-id header, and 401 (by
\* requireAuth, which runs first) when it does not.
C12_NonNumericIdAfterAuth ==
    \A r \in Reqs :
        NonNumericId(r) =>
            IF Falsy(Get(req[r].headers, "x-user-id")) THEN Answered(r, 401)
            ELSE Answered(r, 400)

\* a PUT with an identity header and the path id "abc" was answered 400
C12_Witness ==
    \E r \in Reqs :
        /\ req[r].op = PutUser
        /\ req[r].params.id = Str(<<"a", "b", "c">>)
        /\ req[r].userId = Num(5)
        /\ Answered(r, 400)
        /\ loc[r].ran = <<"requireAuth", "requireOwnershipOrAdmin">>

\* the constraints on the profile fields of a row
ProfileFieldsValid(row) ==
    /\ row.name # Null =>
            /\ TypeOf(row.name) = "string"
            /\ Len(row.name.string) > 0
            /\ Len(row.name.string) <= MaxNameLength
    /\ row.bio # Null =>
            TypeOf(row.bio) = "string" /\ Len(row.bio.string) <= MaxBioLength
    /\ row.age # Null =>
            /\ TypeOf(row.age) = "number"
            /\ row.age.number >= MinAge
            /\ row.age.number <= MaxAge

\* every request so far came through POST /users, GET /users/:id or PUT /users/:id
OnlyGoodRoutes == \A r \in Reqs : pc[r] # "idle" => req[r].op \in GoodRoutes

\* C13: every account created or updated through POST /users or PUT /users/:id
\* satisfies the profile-field constraints in the store: while only these
\* routes (and GET /users/:id) are used, every row has a name that is absent or
\* non-empty and at most 100 characters, a bio that is absent or at most 500
\* characters, and an age that is absent or between 0 and 150.
C13_ProfileConstraints ==
    OnlyGoodRoutes => \A row \in store : ProfileFieldsValid(row)

\* the messages of the errors that the controller method of `op` maps to a
\* status of their own
KnownBusinessErrors(op) ==
    CASE op = PostUsers -> {"User with this email already exists"}
      [] op = GetUser -> {"User not found"}
      [] op = PutUser -> {"User not found", "Invalid age"}

\* the service call of r failed with an error the controller does not know
UnexpectedFailure(r) ==
    /\ Done(r)
    /\ req[r].op \in GoodRoutes
    /\ loc[r].error # Undefined
    /\ loc[r].error.message \notin KnownBusinessErrors(req[r].op)

\* C14: every failure of the service or the gateway during POST /users,
\* GET /users/:id or PUT /users/:id that is not a known business error is
\* answered 500 with the body {error: 'Internal server error'}, which holds
\* neither the error's message nor its name; and no response of these routes
\* has a details or a stack field.
C14_UnexpectedFailure500 ==
    \A r \in Reqs :
        /\ UnexpectedFailure(r) =>
                /\ res[r] = Response(500, [error |-> "Internal server error"])
                /\ res[r].body.error \notin {loc[r].error.message, loc[r].error.name}
        /\ Done(r) /\ req[r].op \in GoodRoutes =>
                /\ res[r].outcome = "response"
                /\ DOMAIN res[r].body \cap {"details", "stack"} = {}

\* a registration that lost the race for its email: the gateway's unique
\* constraint failed and the client got the fixed 500
C14_Witness ==
    \E r \in Reqs :
        /\ UnexpectedFailure(r)
        /\ req[r].op = PostUsers
        /\ loc[r].error = UniqueConstraintError("email")
        /\ res[r].status = 500

(***************************************************************************)
(* The password validator on its own: one POST /users with a valid email   *)
(* and any of the passwords below.                                         *)
(***************************************************************************)
PasswordChars == {"a", "1", "-"}
PasswordLengths == {0, 7, 8, 9}
PasswordValues ==
    {Undefined, Null, Num(0), Num(12345678), PwGood, PwShort,
     Str(<<"a", "l", "l", "l", "e", "t", "t", "e", "r", "s", "n", "o", "d", "i", "g",
           "i", "t">>),
     Str(<<"Z", "Z", "Z", "Z", "Z", "Z", "Z", "9">>)}
        \cup {Str(s) : s \in UNION {[1..n -> PasswordChars] : n \in PasswordLengths}}
PasswordInputs ==
    {HttpRequest(PostUsers, EmptyObject, EmptyObject,
                 [email |-> EmailA] @@ Header("password", p)) : p \in PasswordValues}

PasswordReceive == ReceiveFrom(1, PasswordInputs)

SpecPasswords == Init /\ [][PasswordReceive]_vars

\* a string of at least 8 characters with an ASCII letter and a digit
AcceptablePassword(p) ==
    /\ TypeOf(p) = "string"
    /\ Len(p.string) >= MinPasswordLength
    /\ \E i \in 1..Len(p.string) : p.string[i] \in LetterChars
    /\ \E i \in 1..Len(p.string) : p.string[i] \in DigitChars

\* C15: whenever validatePassword runs, it calls next exactly when the body's
\* password is a string of at least 8 characters with at least one ASCII letter
\* and at least one digit; in every other case (missing, not a string, too
\* short, no letter, no digit) it answers 400 and the handler is not entered.
C15_ValidatePassword ==
    \A r \in Reqs :
        req[r].op = PostUsers /\ Len(loc[r].ran) >= 2 =>
            IF AcceptablePassword(Get(req[r].body, "password")) THEN Passed(r, 2)
            ELSE RejectedWith(r, 2, 400)

\* an 8-character password with seven letters and one digit was let through
C15_Witness ==
    \E r \in Reqs :
        /\ req[r].op = PostUsers
        /\ loc[r].ran = <<"validateEmail", "validatePassword">>
        /\ Get(req[r].body, "password") = Str(<<"a", "a", "a", "a", "a", "a", "a", "1">>)
        /\ pc[r] = "findByEmail"

\* requireAuth let r through: it attached the identity and the role of the
\* headers, and the next middleware ran once
AuthPassed(r) ==
    /\ Passed(r, 1)
    /\ req[r].userId = ParseInt(Get(req[r].headers, "x-user-id"))
    /\ req[r].userRole = Get(req[r].headers, "x-user-role")
    /\ Cardinality({i \in 1..Len(loc[r].ran) : loc[r].ran[i] = "requireOwnershipOrAdmin"}) = 1

\* requireAuth answered 401: nothing was attached and nothing else ran
AuthRejected(r) ==
    /\ RejectedWith(r, 1, 401)
    /\ req[r].userId = Undefined
    /\ req[r].userRole = Undefined

\* C16 as stated: requireAuth answers 401 and does not call next when the
\* x-user-id header is absent; when it is present it attaches the resolved
\* identity and role to the request and calls next exactly once.
C16_RequireAuthPresent ==
    \A r \in Reqs :
        Guarded(r) /\ pc[r] # "idle" =>
            IF Get(req[r].headers, "x-user-id") = Undefined THEN AuthRejected(r)
            ELSE AuthPassed(r)

\* C16: requireAuth answers 401 and does not call next when the x-user-id
\* header is absent or empty; when it has a non-empty value it attaches the
\* resolved identity and role to the request and calls next exactly once.
C16_RequireAuthNonEmpty ==
    \A r \in Reqs :
        Guarded(r) /\ pc[r] # "idle" =>
            IF Get(req[r].headers, "x-user-id") \in {Undefined, Str(<<>>)}
            THEN AuthRejected(r)
            ELSE AuthPassed(r)

\* a caller with identity 7 and role "user" got past requireAuth
C16_Witness ==
    \E r \in Reqs :
        /\ Guarded(r)
        /\ Get(req[r].headers, "x-user-id") = Str(<<"7">>)
        /\ req[r].userId = Num(7)
        /\ req[r].userRole = Str(<<"u", "s", "e", "r">>)
        /\ Len(loc[r].ran) >= 2

\* r came through one of the three routes and the last middleware that ran
\* for it did not call next
ChainRejected(r) ==
    /\ pc[r] # "idle"
    /\ req[r].op \in GoodRoutes
    /\ loc[r].ran # <<>>
    /\ ~Middleware(loc[r].ran[Len(loc[r].ran)], req[r]).next

\* the middleware of r's route ran in the registered order, each one only
\* after the ones before it called next; after a rejection nothing of the
\* handler ran and the rejecting middleware's response is the response
ChainInOrder(r) ==
    LET chain == Chain(req[r].op)
        ran == loc[r].ran
        n == Len(ran)
    IN  /\ n >= 1 /\ n <= Len(chain)
        /\ ran = SubSeq(chain, 1, n)
        /\ \A i \in 1..(n - 1) : Middleware(chain[i], req[r]).next
        /\ IF ChainRejected(r)
           THEN LET m == Middleware(ran[n], req[r])
                IN  /\ pc[r] = "done"
                    /\ loc[r] = [NoLoc EXCEPT !.ran = ran]
                    /\ res[r] = Response(m.status, m.body)
           ELSE n = Len(chain) /\ loc[r].args # <<>>

\* C17: for every request to POST /users, GET /users/:id or PUT /users/:id the
\* chain runs in the registered order and, if a guard or validator rejects, no
\* later middleware and no controller, service or gateway operation runs for
\* the request (it takes no further step), the step that rejects it leaves
\* the store as it is, and the one response it got is never replaced.
C17_ChainShortCircuits ==
    /\ [](\A r \in Reqs : pc[r] # "idle" /\ req[r].op \in GoodRoutes => ChainInOrder(r))
    /\ [][\A r \in Reqs :
            /\ pc[r] = "idle" /\ ChainRejected(r)' =>
                    store' = store /\ nextId' = nextId
            /\ ChainRejected(r) =>
                    /\ pc'[r] = pc[r] /\ loc'[r] = loc[r]
                    /\ res'[r] = res[r] /\ req'[r] = req[r]]_vars

\* a PUT /users/1 by its owner with age 200: both guards let it through, the
\* validator answered 400, and the seeded account is as it was
C17_Witness ==
    \E r \in Reqs :
        /\ req[r].op = PutUser
        /\ loc[r].ran = Chain(PutUser)
        /\ ChainRejected(r)
        /\ RejectedWith(r, 3, 400)
        /\ store = {SeedRow}

ProfileFields == {"name", "bio", "age", "phone"}

\* C18: a successful PUT /users/:id that supplies only some of name, bio, age
\* and phone changes exactly the supplied fields of the addressed account: the
\* step that writes it sets the supplied fields to the supplied values and
\* leaves the account's other profile fields, its email, password, id and
\* createdAt, and every other account, as they were.
C18_PartialUpdateFrame ==
    [][\A r \in Reqs :
          /\ req[r].op = PutUser
          /\ pc[r] = "update" /\ pc'[r] = "done"
          /\ res'[r].outcome = "response" /\ res'[r].status = 200
          => LET supplied == {k \in ProfileFields : Get(req[r].body, k) # Undefined}
             IN  \E old \in store, new \in store' :
                    /\ old.id = loc[r].args[1] /\ new.id = old.id
                    /\ store' \ {new} = store \ {old}
                    /\ \A k \in Columns :
                          new[k] = IF k \in supplied THEN req[r].body[k] ELSE old[k]]_vars

\* two PUT /users/1 succeeded, one that supplied only the age and one that
\* supplied only the name: the account holds both, with its email as before
C18_Witness ==
    \E r1, r2 \in Reqs :
        /\ r1 # r2
        /\ req[r1].op = PutUser /\ Answered(r1, 200)
        /\ req[r2].op = PutUser /\ Answered(r2, 200)
        /\ DOMAIN req[r1].body \cap ProfileFields = {"age"}
        /\ DOMAIN req[r2].body \cap ProfileFields = {"name"}
        /\ \E row \in store :
              /\ row.id = Num(1)
              /\ row.age = Num(30) /\ row.name = NameAl /\ row.email = EmailA

BadUpdateRenumbers(row) ==
    \E r \in Reqs :
        /\ req[r].op = PutBadUser
        /\ pc[r] = "badUpdate" /\ pc'[r] = "done"
        /\ "id" \in DOMAIN req[r].body
        /\ loc[r].args[1] = row.id
        /\ \E row2 \in store' :
              /\ row2.id = req[r].body.id
              /\ store' \ {row2} = store \ {row}

====
